---------------------------- MODULE Spec2Model ----------------------------
(***************************************************************************)
(* A model of src/HealthMonitor-AI.py: class HealthMonitorAI with its      *)
(* parser (parse_input_data), validator (validate_data), metrics engine    *)
(* (calculate_metrics), report renderer (generate_report) and the driver   *)
(* process_data.                                                           *)
(*                                                                         *)
(* Python values are modelled with their run-time type, because the        *)
(* validator's int(...) / float(...) conversions and the metrics engine's  *)
(* arithmetic behave differently on int, float, bool, str, None, list and  *)
(* dict.  Python floats are IEEE-754 binary64 numbers and are modelled     *)
(* bit-exactly (53-bit significand, round-half-to-even), on top of a small *)
(* arbitrary-precision natural number layer, since TLC integers are 32     *)
(* bits wide.                                                              *)
(***************************************************************************)
EXTENDS Integers, Sequences, FiniteSets, TLC

(***************************************************************************)
(* Arbitrary-precision naturals: little-endian sequences of limbs in base  *)
(* 2^15, without most-significant zero limbs (zero is the empty sequence). *)
(***************************************************************************)
Base == 2^15

RECURSIVE BNorm(_)
BNorm(a) ==
    IF a = <<>> THEN <<>>
    ELSE IF a[Len(a)] = 0 THEN BNorm(SubSeq(a, 1, Len(a) - 1))
    ELSE a

RECURSIVE BOfInt(_)
BOfInt(n) == IF n = 0 THEN <<>> ELSE <<n % Base>> \o BOfInt(n \div Base)

RECURSIVE BToInt(_)
BToInt(a) == IF a = <<>> THEN 0 ELSE a[1] + Base * BToInt(Tail(a))

RECURSIVE BAddC(_, _, _)
BAddC(a, b, c) ==
    IF a = <<>> /\ b = <<>> THEN (IF c = 0 THEN <<>> ELSE <<c>>)
    ELSE LET x == IF a = <<>> THEN 0 ELSE a[1]
             y == IF b = <<>> THEN 0 ELSE b[1]
             s == x + y + c
         IN  <<s % Base>> \o BAddC(IF a = <<>> THEN <<>> ELSE Tail(a),
                                   IF b = <<>> THEN <<>> ELSE Tail(b),
                                   s \div Base)

BAdd(a, b) == BAddC(a, b, 0)

\* a - b for a >= b
RECURSIVE BSubC(_, _, _)
BSubC(a, b, c) ==
    IF a = <<>> THEN <<>>
    ELSE LET y == IF b = <<>> THEN 0 ELSE b[1]
             d == a[1] - y - c
         IN  <<IF d < 0 THEN d + Base ELSE d>>
             \o BSubC(Tail(a), IF b = <<>> THEN <<>> ELSE Tail(b),
                      IF d < 0 THEN 1 ELSE 0)

BSub(a, b) == BNorm(BSubC(a, b, 0))

\* -1, 0, 1 as a < b, a = b, a > b (both normalised)
RECURSIVE BCmpFrom(_, _, _)
BCmpFrom(a, b, i) ==
    IF i = 0 THEN 0
    ELSE IF a[i] < b[i] THEN -1
    ELSE IF a[i] > b[i] THEN 1
    ELSE BCmpFrom(a, b, i - 1)

BCmp(a, b) ==
    IF Len(a) < Len(b) THEN -1
    ELSE IF Len(a) > Len(b) THEN 1
    ELSE BCmpFrom(a, b, Len(a))

\* a * k for 0 <= k < Base
RECURSIVE BMulSmallC(_, _, _)
BMulSmallC(a, k, c) ==
    IF a = <<>> THEN (IF c = 0 THEN <<>> ELSE <<c>>)
    ELSE LET p == a[1] * k + c
         IN  <<p % Base>> \o BMulSmallC(Tail(a), k, p \div Base)

BMulSmall(a, k) == IF k = 0 THEN <<>> ELSE BMulSmallC(a, k, 0)

RECURSIVE BMul(_, _)
BMul(a, b) ==
    IF a = <<>> \/ b = <<>> THEN <<>>
    ELSE BAdd(BMulSmall(a, b[1]),
              LET r == BMul(a, Tail(b)) IN IF r = <<>> THEN <<>> ELSE <<0>> \o r)

\* quotient and remainder of a by d, 0 < d < Base
RECURSIVE BDivSmallFrom(_, _, _, _)
BDivSmallFrom(a, d, i, r) ==
    IF i = 0 THEN [q |-> <<>>, r |-> r]
    ELSE LET cur  == r * Base + a[i]
             rest == BDivSmallFrom(a, d, i - 1, cur % d)
         IN  [q |-> rest.q \o <<cur \div d>>, r |-> rest.r]

BDivSmall(a, d) ==
    LET res == BDivSmallFrom(a, d, Len(a), 0)
    IN  [q |-> BNorm(res.q), r |-> res.r]

RECURSIVE Zeros(_)
Zeros(n) == IF n = 0 THEN <<>> ELSE <<0>> \o Zeros(n - 1)

\* a * 2^n
BShl(a, n) ==
    IF a = <<>> THEN <<>>
    ELSE Zeros(n \div 15) \o BMulSmall(a, 2^(n % 15))

\* floor(a / 2^n)
BShr(a, n) ==
    LET k == n \div 15
    IN  IF k >= Len(a) THEN <<>>
        ELSE BDivSmall(SubSeq(a, k + 1, Len(a)), 2^(n % 15)).q

RECURSIVE IntBitLen(_)
IntBitLen(n) == IF n = 0 THEN 0 ELSE 1 + IntBitLen(n \div 2)

BBitLen(a) == IF a = <<>> THEN 0 ELSE 15 * (Len(a) - 1) + IntBitLen(a[Len(a)])

BIsOdd(a) == a # <<>> /\ a[1] % 2 = 1

(***************************************************************************)
(* Python float: an IEEE-754 binary64 number.  A finite value is           *)
(* (-1)^neg * m * 2^e with m = 0 (and e = 0) or m of exactly 53 bits;      *)
(* cls tells finite values from the infinities and NaN.  The values the    *)
(* program computes stay far from the subnormal and the overflow range.    *)
(* Intermediate values are handed on as operator parameters.               *)
(***************************************************************************)
Fin(neg, m, e) == [cls |-> "fin", neg |-> neg, m |-> m, e |-> e]
FZero == Fin(FALSE, <<>>, 0)
FNaN  == [cls |-> "nan", neg |-> FALSE, m |-> <<>>, e |-> 0]
FInf(neg) == [cls |-> "inf", neg |-> neg, m |-> <<>>, e |-> 0]
IsZero(x) == x.cls = "fin" /\ x.m = <<>>

\* q rounded to nearest, ties to even: c compares the discarded remainder
\* with one half (-1, 0, 1), sticky tells of a further discarded fraction
RoundedUp(q, c, sticky) ==
    IF c > 0 \/ (c = 0 /\ (sticky \/ BIsOdd(q))) THEN BAdd(q, <<1>>) ELSE q

\* the discarded low sh bits of M compared with one half, q = floor(M / 2^sh)
CmpHalf(M, q, sh) == BCmp(BSub(M, BShl(q, sh)), BShl(<<1>>, sh - 1))

\* a rounded significand of 53 or (after a carry) 54 bits
FCarry(neg, q1, E) ==
    IF BBitLen(q1) > 53 THEN Fin(neg, BShr(q1, 1), E + 1) ELSE Fin(neg, q1, E)

FRoundQ(neg, M, E, sticky, sh, q) ==
    FCarry(neg, RoundedUp(q, CmpHalf(M, q, sh), sticky), E + sh)

FRoundBl(neg, M, E, sticky, bl) ==
    IF bl = 0 THEN FZero
    ELSE IF bl <= 53 THEN Fin(neg, BShl(M, 53 - bl), E - (53 - bl))
    ELSE FRoundQ(neg, M, E, sticky, bl - 53, BShr(M, bl - 53))

\* The binary64 nearest to M * 2^E (plus a positive fraction of 2^E below one
\* unit when sticky), ties to even.
FRound(neg, M, E, sticky) == FRoundBl(neg, M, E, sticky, BBitLen(M))

\* float(n) for a machine-size integer n
FOfInt(n) == FRound(n < 0, BOfInt(IF n < 0 THEN -n ELSE n), 0, FALSE)

\* x * y
FMul(x, y) ==
    IF x.cls = "nan" \/ y.cls = "nan" THEN FNaN
    ELSE IF x.cls = "inf" \/ y.cls = "inf"
    THEN (IF IsZero(x) \/ IsZero(y) THEN FNaN ELSE FInf(x.neg # y.neg))
    ELSE IF x.m = <<>> \/ y.m = <<>> THEN Fin(x.neg # y.neg, <<>>, 0)
    ELSE FRound(x.neg # y.neg, BMul(x.m, y.m), x.e + y.e, FALSE)

FRoundQuot(neg, qr, E) == FRound(neg, qr.q, E, qr.r # 0)

\* x / d for an integer 0 < d < 2^15
FDivSmall(x, d) ==
    IF x.cls # "fin" \/ x.m = <<>> THEN x
    ELSE FRoundQuot(x.neg, BDivSmall(BShl(x.m, 75), d), x.e - 75)

FAddAt(x, y, lo) ==
    FRound(FALSE, BAdd(BShl(x.m, x.e - lo), BShl(y.m, y.e - lo)), lo, FALSE)

\* x + y for x, y not negative (the only sums the program forms)
FAdd(x, y) ==
    IF x.cls = "nan" \/ y.cls = "nan" THEN FNaN
    ELSE IF x.cls = "inf" \/ y.cls = "inf" THEN FInf(FALSE)
    ELSE IF x.m = <<>> THEN y
    ELSE IF y.m = <<>> THEN x
    ELSE FAddAt(x, y, IF x.e < y.e THEN x.e ELSE y.e)

\* -1, 0, 1 as |x| < |y|, |x| = |y|, |x| > |y| for finite x, y
FCmpMag(x, y) ==
    IF x.m = <<>> /\ y.m = <<>> THEN 0
    ELSE IF x.m = <<>> THEN -1
    ELSE IF y.m = <<>> THEN 1
    ELSE IF x.e < y.e THEN -1
    ELSE IF x.e > y.e THEN 1
    ELSE BCmp(x.m, y.m)

Sign(x) == IF IsZero(x) THEN 0 ELSE IF x.neg THEN -1 ELSE 1

FCmpSigned(x, y, sx, sy) ==
    IF sx < sy THEN -1
    ELSE IF sx > sy THEN 1
    ELSE IF sx = 0 THEN 0
    ELSE IF x.cls = "inf" /\ y.cls = "inf" THEN 0
    ELSE IF x.cls = "inf" THEN sx
    ELSE IF y.cls = "inf" THEN -sx
    ELSE sx * FCmpMag(x, y)

\* -1, 0, 1 as x < y, x = y, x > y for x, y other than NaN
FCmp(x, y) == FCmpSigned(x, y, Sign(x), Sign(y))

\* Python's comparisons: every comparison with NaN is false
FLt(x, y) == x.cls # "nan" /\ y.cls # "nan" /\ FCmp(x, y) < 0
FLe(x, y) == x.cls # "nan" /\ y.cls # "nan" /\ FCmp(x, y) <= 0
FGt(x, y) == FLt(y, x)
FGe(x, y) == FLe(y, x)

Signed(neg, mag) == IF neg THEN -mag ELSE mag

\* int(x) for a finite float x: truncation towards zero
FTrunc(x) ==
    Signed(x.neg, IF x.m = <<>> THEN 0
                  ELSE IF x.e >= 0 THEN BToInt(BShl(x.m, x.e))
                  ELSE BToInt(BShr(x.m, -x.e)))

Hundredths(neg, h) == [cls |-> "fin", neg |-> neg, h |-> h]

Round2Q(neg, N, sh, q) ==
    Hundredths(neg, BToInt(RoundedUp(q, CmpHalf(N, q, sh), FALSE)))

Round2N(neg, N, e) ==
    IF e >= 0 THEN Hundredths(neg, BToInt(BShl(N, e)))
    ELSE Round2Q(neg, N, -e, BShr(N, -e))

\* round(x, 2): the decimal with two places nearest to the exact value of x,
\* ties to even.  The result is the binary64 nearest to h/100, which repr
\* prints as that decimal; it is kept as the number h of hundredths.
Round2(x) ==
    IF x.cls # "fin" THEN [cls |-> x.cls, neg |-> x.neg, h |-> 0]
    ELSE IF x.m = <<>> THEN Hundredths(x.neg, 0)
    ELSE Round2N(x.neg, BMulSmall(x.m, 100), x.e)

WithSign(x, neg) == [x EXCEPT !.neg = neg]

\* The float a decimal literal denotes: digits / 10^places, correctly rounded
\* (places <= 4)
FOfDec(neg, digits, places) ==
    WithSign(FDivSmall(FOfInt(digits), 10^places), neg)

(***************************************************************************)
(* Python values.  A str is the sequence of its characters; a dict keeps   *)
(* its keys in insertion order (keys) beside the mapping itself (d).       *)
(***************************************************************************)
PyNone      == [t |-> "none"]
PyBool(b)   == [t |-> "bool", b |-> b]
PyInt(n)    == [t |-> "int", n |-> n]
PyFloat(f)  == [t |-> "float", f |-> f]
PyStr(s)    == [t |-> "str", s |-> s]
PyList(xs)  == [t |-> "list", items |-> xs]
PyDict(ks, d) == [t |-> "dict", keys |-> ks, d |-> d]

Digits == {"0", "1", "2", "3", "4", "5", "6", "7", "8", "9"}
Whitespace == {" ", "\n", "\t"}

DigitVal(c) ==
    CASE c = "0" -> 0 [] c = "1" -> 1 [] c = "2" -> 2 [] c = "3" -> 3
      [] c = "4" -> 4 [] c = "5" -> 5 [] c = "6" -> 6 [] c = "7" -> 7
      [] c = "8" -> 8 [] c = "9" -> 9

\* str.strip()
RECURSIVE LStrip(_)
LStrip(s) == IF s # <<>> /\ s[1] \in Whitespace THEN LStrip(Tail(s)) ELSE s

RECURSIVE RStrip(_)
RStrip(s) ==
    IF s # <<>> /\ s[Len(s)] \in Whitespace
    THEN RStrip(SubSeq(s, 1, Len(s) - 1)) ELSE s

Strip(s) == RStrip(LStrip(s))

AllDigits(s) == \A i \in 1..Len(s) : s[i] \in Digits

RECURSIVE DigitsVal(_)
DigitsVal(s) ==
    IF s = <<>> THEN 0
    ELSE 10 * DigitsVal(SubSeq(s, 1, Len(s) - 1)) + DigitVal(s[Len(s)])

\* x in s for two strings: s has x as a substring
IsSubstring(x, s) ==
    \E i \in 0..(Len(s) - Len(x)) : SubSeq(s, i + 1, i + Len(x)) = x

\* The result of a conversion: exc is "none" or the exception raised
Conv(exc, v) == [exc |-> exc, v |-> v]

\* a numeric literal after strip(): its optional sign and the rest
HasSign(t)  == t # <<>> /\ t[1] \in {"-", "+"}
IsNeg(t)    == t # <<>> /\ t[1] = "-"
Unsigned(t) == IF HasSign(t) THEN Tail(t) ELSE t

IntLiteral(neg, body) ==
    IF body # <<>> /\ AllDigits(body)
    THEN Conv("none", Signed(neg, DigitsVal(body)))
    ELSE Conv("ValueError", 0)

\* int(s) for a str s, over the characters the model draws strings from
\* (digits, sign, point, blank, letters; no underscore, no exponent):
\* blanks stripped, an optional sign, then at least one digit
StrToInt(s) == IntLiteral(IsNeg(Strip(s)), Unsigned(Strip(s)))

Points(body) == {i \in 1..Len(body) : body[i] = "."}

DecimalLiteral(neg, ip, fp) ==
    IF AllDigits(ip) /\ AllDigits(fp) /\ Len(ip) + Len(fp) > 0
    THEN Conv("none", FOfDec(neg, DigitsVal(ip \o fp), Len(fp)))
    ELSE Conv("ValueError", FZero)

PointLiteral(neg, body, i) ==
    DecimalLiteral(neg, SubSeq(body, 1, i - 1), SubSeq(body, i + 1, Len(body)))

FloatLiteral(neg, body, dots) ==
    IF body = <<"n", "a", "n">> THEN Conv("none", FNaN)
    ELSE IF body \in {<<"i", "n", "f">>, <<"i", "n", "f", "i", "n", "i", "t", "y">>}
    THEN Conv("none", FInf(neg))
    ELSE IF dots = {} THEN DecimalLiteral(neg, body, <<>>)
    ELSE IF Cardinality(dots) = 1 THEN PointLiteral(neg, body, CHOOSE i \in dots : TRUE)
    ELSE Conv("ValueError", FZero)

\* float(s) for a str s over the same characters: blanks stripped, an
\* optional sign, then nan, inf, infinity or digits with at most one point
StrToFloat(s) ==
    FloatLiteral(IsNeg(Strip(s)), Unsigned(Strip(s)), Points(Unsigned(Strip(s))))

\* int(x)
ToInt(x) ==
    CASE x.t = "int"   -> Conv("none", x.n)
      [] x.t = "bool"  -> Conv("none", IF x.b THEN 1 ELSE 0)
      [] x.t = "float" -> (CASE x.f.cls = "nan" -> Conv("ValueError", 0)
                             [] x.f.cls = "inf" -> Conv("OverflowError", 0)
                             [] OTHER -> Conv("none", FTrunc(x.f)))
      [] x.t = "str"   -> StrToInt(x.s)
      [] OTHER         -> Conv("TypeError", 0)

\* float(x)
ToFloat(x) ==
    CASE x.t = "int"   -> Conv("none", FOfInt(x.n))
      [] x.t = "bool"  -> Conv("none", FOfInt(IF x.b THEN 1 ELSE 0))
      [] x.t = "float" -> Conv("none", x.f)
      [] x.t = "str"   -> StrToFloat(x.s)
      [] OTHER         -> Conv("TypeError", FZero)

\* bool(x): Python's truth value, as "if not data" tests it
Truthy(x) ==
    CASE x.t = "none"  -> FALSE
      [] x.t = "bool"  -> x.b
      [] x.t = "int"   -> x.n # 0
      [] x.t = "float" -> ~(x.f.cls = "fin" /\ x.f.m = <<>>)
      [] x.t = "str"   -> x.s # <<>>
      [] x.t = "list"  -> x.items # <<>>
      [] x.t = "dict"  -> x.keys # <<>>

(***************************************************************************)
(* HealthMonitorAI.__init__: the required field names.                     *)
(***************************************************************************)
F_user_id == <<"u", "s", "e", "r", "_", "i", "d">>
F_current_steps == <<"c", "u", "r", "r", "e", "n", "t", "_", "s", "t", "e", "p", "s">>
F_heart_rate == <<"h", "e", "a", "r", "t", "_", "r", "a", "t", "e">>
F_ambient_temperature ==
    <<"a", "m", "b", "i", "e", "n", "t", "_",
      "t", "e", "m", "p", "e", "r", "a", "t", "u", "r", "e">>
F_environmental_index ==
    <<"e", "n", "v", "i", "r", "o", "n", "m", "e", "n", "t", "a", "l", "_",
      "i", "n", "d", "e", "x">>
F_activity_intensity_factor ==
    <<"a", "c", "t", "i", "v", "i", "t", "y", "_",
      "i", "n", "t", "e", "n", "s", "i", "t", "y", "_",
      "f", "a", "c", "t", "o", "r">>

required_fields ==
    <<F_user_id, F_current_steps, F_heart_rate, F_ambient_temperature,
      F_environmental_index, F_activity_intensity_factor>>

RequiredSet == {required_fields[i] : i \in 1..Len(required_fields)}

(***************************************************************************)
(* validate_data                                                           *)
(***************************************************************************)
\* len(data) and iteration are defined for these types only
Sized(x) == x.t \in {"list", "str", "dict"}

\* the elements "for record in data" yields
Elements(x) ==
    CASE x.t = "list" -> x.items
      [] x.t = "str"  -> [i \in 1..Len(x.s) |-> PyStr(<<x.s[i]>>)]
      [] x.t = "dict" -> [i \in 1..Len(x.keys) |-> PyStr(x.keys[i])]

\* "field in record": key of a dict, substring of a str, element of a list;
\* any other record raises TypeError
CanContain(record) == record.t \in {"dict", "str", "list"}

Contains(record, field) ==
    CASE record.t = "dict" -> field \in DOMAIN record.d
      [] record.t = "str"  -> IsSubstring(field, record.s)
      [] record.t = "list" ->
            \E i \in 1..Len(record.items) :
                /\ record.items[i].t = "str"
                /\ record.items[i].s = field

MissingFields(record) ==
    SelectSeq(required_fields, LAMBDA f : ~Contains(record, f))

Caught == {"ValueError", "TypeError"}

\* lines 71-83: int(value) raised or gave a value <= 0
IntFieldInvalid(c) == c.exc \in Caught \/ (c.exc = "none" /\ c.v <= 0)

\* lines 90-95 without the upper bound
EnvIndexInvalidNoUpper(c) ==
    c.exc \in Caught \/ (c.exc = "none" /\ FLt(c.v, FOfInt(0)))

\* lines 90-95 with the upper bound made exclusive
EnvIndexInvalidExclusive(c) ==
    c.exc \in Caught
    \/ (c.exc = "none" /\ (FLt(c.v, FOfInt(0)) \/ FGe(c.v, FOfInt(100))))

\* lines 90-95
EnvIndexInvalid(c) ==
    c.exc \in Caught
    \/ (c.exc = "none" /\ (FLt(c.v, FOfInt(0)) \/ FGt(c.v, FOfInt(100))))

\* lines 97-102
IntensityInvalid(c) == c.exc \in Caught \/ (c.exc = "none" /\ FLe(c.v, FOfInt(0)))

\* lines 68-102: does the field fail its type/range check
FieldInvalid(record, f) ==
    CASE f = F_user_id -> record.d[f].t # "str"
      [] f \in {F_current_steps, F_heart_rate} -> IntFieldInvalid(ToInt(record.d[f]))
      [] f = F_ambient_temperature -> ToFloat(record.d[f]).exc \in Caught
      [] f = F_environmental_index -> EnvIndexInvalid(ToFloat(record.d[f]))
      [] f = F_activity_intensity_factor -> IntensityInvalid(ToFloat(record.d[f]))

InvalidFields(record) ==
    SelectSeq(required_fields, LAMBDA f : FieldInvalid(record, f))

\* an exception the except clauses of lines 75 and 82 do not catch
UncaughtIn(record) ==
    \E f \in {F_current_steps, F_heart_rate} :
        ToInt(record.d[f]).exc \notin Caught \cup {"none"}

MissingError(fields, row) == [kind |-> "missing", fields |-> fields, row |-> row]
InvalidError(fields, row) == [kind |-> "invalid", fields |-> fields, row |-> row]

Checked(exc, errs) == [exc |-> exc, errs |-> errs]

\* lines 104-106
CheckInvalid(invalid_fields, row) ==
    IF invalid_fields # <<>>
    THEN Checked("none", <<InvalidError(invalid_fields, row)>>)
    ELSE Checked("none", <<>>)

\* lines 62-102; record["user_id"] raises TypeError unless record is a dict
CheckMissing(record, missing_fields, row) ==
    IF missing_fields # <<>>
    THEN Checked("none", <<MissingError(missing_fields, row)>>)
    ELSE IF record.t # "dict" THEN Checked("TypeError", <<>>)
    ELSE IF UncaughtIn(record) THEN Checked("OverflowError", <<>>)
    ELSE CheckInvalid(InvalidFields(record), row)

\* one pass of the loop of lines 52-106: the exception raised ("none" when
\* none) and the error strings appended, each kept as its kind, its field
\* names and its row number
CheckRecord(record, row) ==
    IF ~CanContain(record) THEN Checked("TypeError", <<>>)
    ELSE CheckMissing(record, MissingFields(record), row)

RECURSIVE CheckRecords(_, _)

CheckRest(records, i, one) ==
    IF one.exc # "none" THEN one
    ELSE [CheckRecords(records, i + 1) EXCEPT !.errs = one.errs \o @]

\* the loop of lines 52-106 from record i on
CheckRecords(records, i) ==
    IF i > Len(records) THEN Checked("none", <<>>)
    ELSE CheckRest(records, i, CheckRecord(records[i], i))

\* lines 109-113
FieldsCheck(records) ==
    [f \in RequiredSet |->
        IF \A i \in 1..Len(records) : Contains(records[i], f)
        THEN "present" ELSE "missing"]

\* _generate_validation_report: the report's variable parts
GenerateValidationReport(num_users, fields_check, errors) ==
    [kind       |-> "validation_report",
     num_users  |-> num_users,
     num_fields |-> Len(required_fields),
     fields     |-> [f \in DOMAIN fields_check |->
                        IF fields_check[f] = "present" THEN "valid" ELSE "invalid"],
     summary    |-> IF errors = <<>> THEN <<"success">> ELSE <<"errors">>,
     errors     |-> errors]

NoDataReport ==
    [kind |-> "no_data", num_users |-> 0, num_fields |-> 0,
     fields |-> <<>>, summary |-> <<>>, errors |-> <<>>]

\* what validate_data returns, or the exception it raises
Validated(exc, passed, report, num_users, fields_check, errors) ==
    [exc |-> exc, passed |-> passed, report |-> report, num_users |-> num_users,
     fields_check |-> fields_check, errors |-> errors]

Raised(exc) == Validated(exc, FALSE, NoDataReport, 0, <<>>, <<>>)

\* lines 116-121
ValidationReturn(num_users, fields_check, errors) ==
    Validated("none", errors = <<>>,
              GenerateValidationReport(num_users, fields_check, errors),
              num_users, fields_check, errors)

ValidationOf(records, chk) ==
    IF chk.exc # "none" THEN Raised(chk.exc)
    ELSE ValidationReturn(Len(records), FieldsCheck(records), chk.errs)

\* lines 48-121 for the elements of data
ValidateRecords(records) ==
    IF Len(records) = 0 THEN Raised("none")
    ELSE ValidationOf(records, CheckRecords(records, 1))

\* validate_data(data): the exception raised, or the returned triple
\* (passed, report, validation_results)
validate_data(data) ==
    IF ~Sized(data) THEN Raised("TypeError") ELSE ValidateRecords(Elements(data))

(***************************************************************************)
(* calculate_metrics                                                       *)
(***************************************************************************)
IntLike(v) == v.t \in {"int", "bool"}
IsNumber(v) == v.t \in {"int", "bool", "float"}
IntOf(v) == IF v.t = "int" THEN v.n ELSE IF v.b THEN 1 ELSE 0
FloatOf(v) == IF v.t = "float" THEN v.f ELSE FOfInt(IntOf(v))

\* a float that round(x, 2) returned: the binary64 nearest to r.h / 100
PyRounded(r) == [t |-> "rounded", r |-> r]

\* v < n, v <= n, v >= n for a number v and an int literal n
NumLt(v, n) == IF IntLike(v) THEN IntOf(v) < n ELSE FLt(v.f, FOfInt(n))
NumLe(v, n) == IF IntLike(v) THEN IntOf(v) <= n ELSE FLe(v.f, FOfInt(n))
NumGe(v, n) == IF IntLike(v) THEN IntOf(v) >= n ELSE FGe(v.f, FOfInt(n))

\* line 217: current_steps * activity_intensity_factor, for two numbers
PredictedActivity(steps, intensity) ==
    IF IntLike(steps) /\ IntLike(intensity)
    THEN PyInt(IntOf(steps) * IntOf(intensity))
    ELSE PyFloat(FMul(FloatOf(steps), FloatOf(intensity)))

\* round(x, 2) of line 218: an int stays an int
RoundValue(x) == IF x.t = "int" THEN x ELSE PyRounded(Round2(x.f))

\* lines 221-227 with the lower bound of "Optimal" made exclusive
HeartRateCategoryExclusive(heart_rate) ==
    IF NumLe(heart_rate, 60) THEN "Below Optimal"
    ELSE IF NumLe(heart_rate, 100) THEN "Optimal"
    ELSE "Above Optimal"

\* lines 221-227
HeartRateCategory(heart_rate) ==
    IF NumLt(heart_rate, 60) THEN "Below Optimal"
    ELSE IF NumGe(heart_rate, 60) /\ NumLe(heart_rate, 100) THEN "Optimal"
    ELSE "Above Optimal"

\* lines 231-237
EnvironmentalQuality(env_index) ==
    IF NumGe(env_index, 75) THEN "Good"
    ELSE IF NumGe(env_index, 50) THEN "Moderate"
    ELSE "Poor"

\* lines 241-247
TemperatureImpact(temp) ==
    IF NumGe(temp, 15) /\ NumLe(temp, 25) THEN "Ideal Temperature"
    ELSE IF NumLt(temp, 15) THEN "Too Cold"
    ELSE "Too Hot"

\* lines 252-253: 1 is an int, the other factors are floats
heart_rate_factors(category) ==
    CASE category = "Optimal"       -> FOfInt(1)
      [] category = "Below Optimal" -> FOfDec(FALSE, 8, 1)
      [] category = "Above Optimal" -> FOfDec(FALSE, 7, 1)

env_factors(quality) ==
    CASE quality = "Good"     -> FOfInt(1)
      [] quality = "Moderate" -> FOfDec(FALSE, 8, 1)
      [] quality = "Poor"     -> FOfDec(FALSE, 6, 1)

\* line 259: (predicted_activity / 10000) * 0.5
NormalizedActivity(predicted_activity) ==
    FMul(FDivSmall(FloatOf(predicted_activity), 10000), FOfDec(FALSE, 5, 1))

\* line 260
HeartComponent(category) == FMul(heart_rate_factors(category), FOfDec(FALSE, 3, 1))

\* line 261
EnvComponent(quality) == FMul(env_factors(quality), FOfDec(FALSE, 2, 1))

\* line 263: the unrounded composite_score
CompositeScore(normalized_activity, heart_component, env_component) ==
    FAdd(FAdd(normalized_activity, heart_component), env_component)

\* lines 270-277 deciding on the score as it is reported, round(x, 2)
IsOptimalPlanReported(composite_score, heart_rate_category, temp_impact) ==
    /\ Round2(composite_score).cls = "fin"
    /\ Signed(Round2(composite_score).neg, Round2(composite_score).h) >= 75
    /\ heart_rate_category = "Optimal"
    /\ temp_impact = "Ideal Temperature"

\* lines 270-277: is the recommendation "Continue current fitness plan"
IsOptimalPlan(composite_score, heart_rate_category, temp_impact) ==
    /\ FGe(composite_score, FOfDec(FALSE, 75, 2))
    /\ heart_rate_category = "Optimal"
    /\ temp_impact = "Ideal Temperature"

NoCalculations ==
    [predicted_activity |-> PyNone, heart_rate_category |-> "",
     environmental_quality |-> "", temperature_impact |-> "",
     normalized_activity |-> PyNone, heart_component |-> PyNone,
     env_component |-> PyNone, composite_fitness_score |-> PyNone,
     recommendation |-> "", status |-> ""]

\* lines 264-282: the rounded scores, the recommendation and the result;
\* composite_score is the local variable of line 263, kept beside the result
Results(user_data, predicted, hcat, equal, timpact, normalized, hcomp, ecomp, composite, optimal) ==
    [exc |-> "none",
     input_data |-> user_data,
     composite_score |-> composite,
     calculations |->
        [predicted_activity      |-> RoundValue(predicted),
         heart_rate_category     |-> hcat,
         environmental_quality   |-> equal,
         temperature_impact      |-> timpact,
         normalized_activity     |-> PyRounded(Round2(normalized)),
         heart_component         |-> PyRounded(Round2(hcomp)),
         env_component           |-> PyRounded(Round2(ecomp)),
         composite_fitness_score |-> PyRounded(Round2(composite)),
         recommendation |-> IF optimal THEN "Continue current fitness plan"
                            ELSE "Adjust fitness plan",
         status         |-> IF optimal THEN "Optimal" ELSE "Needs Adjustment"]]

\* lines 263-277
Recommend(user_data, predicted, hcat, equal, timpact, normalized, hcomp, ecomp, composite) ==
    Results(user_data, predicted, hcat, equal, timpact, normalized, hcomp, ecomp,
            composite, IsOptimalPlan(composite, hcat, timpact))

\* lines 259-263
Score(user_data, predicted, hcat, equal, timpact, normalized, hcomp, ecomp) ==
    Recommend(user_data, predicted, hcat, equal, timpact, normalized, hcomp, ecomp,
              CompositeScore(normalized, hcomp, ecomp))

\* lines 252-261
Components(user_data, predicted, hcat, equal, timpact) ==
    Score(user_data, predicted, hcat, equal, timpact,
          NormalizedActivity(predicted), HeartComponent(hcat), EnvComponent(equal))

\* lines 217-248 for five numbers
Classify(user_data, steps, intensity, heart, env, temp) ==
    Components(user_data, PredictedActivity(steps, intensity),
               HeartRateCategory(heart), EnvironmentalQuality(env),
               TemperatureImpact(temp))

MetricsRaised(exc, user_data) ==
    [exc |-> exc, input_data |-> user_data, composite_score |-> FZero,
     calculations |-> NoCalculations]

\* A str among the five numeric fields makes line 217 or 218 (str * float,
\* or round of a str), line 222, 232 or 242 (str compared with int) raise
\* TypeError.
FieldsChecked(user_data, steps, intensity, heart, env, temp) ==
    IF IsNumber(steps) /\ IsNumber(intensity) /\ IsNumber(heart)
       /\ IsNumber(env) /\ IsNumber(temp)
    THEN Classify(user_data, steps, intensity, heart, env, temp)
    ELSE MetricsRaised("TypeError", user_data)

\* calculate_metrics(user_data) for a dict with the six fields: the
\* exception raised ("none" when none) and the returned results
calculate_metrics(user_data) ==
    FieldsChecked(user_data,
                  user_data.d[F_current_steps],
                  user_data.d[F_activity_intensity_factor],
                  user_data.d[F_heart_rate],
                  user_data.d[F_environmental_index],
                  user_data.d[F_ambient_temperature])

(***************************************************************************)
(* generate_report: the values the report text embeds.  repr of a float    *)
(* that round(x, 2) returned prints the decimal r.h / 100.                 *)
(***************************************************************************)
generate_report(metrics) ==
    LET calcs == metrics.calculations
    IN  [kind           |-> "user_report",
         user_id        |-> metrics.input_data.d[F_user_id],
         input_data     |-> [i \in 1..Len(required_fields) |->
                                metrics.input_data.d[required_fields[i]]],
         predicted      |-> calcs.predicted_activity,
         heart_rate     |-> calcs.heart_rate_category,
         environment    |-> calcs.environmental_quality,
         temperature    |-> calcs.temperature_impact,
         composite_line |-> <<calcs.normalized_activity, calcs.heart_component,
                              calcs.env_component, calcs.composite_fitness_score>>,
         recommendation |-> calcs.recommendation,
         status         |-> calcs.status]

(***************************************************************************)
(* parse_input_data.  A payload is one of                                  *)
(*   kind "json":    a text that starts with "{" after strip() and that    *)
(*                   json.loads turns into the dict obj;                   *)
(*   kind "badjson": a text that starts with "{" and makes json.loads      *)
(*                   raise;                                                *)
(*   kind "text":    any other text, given by its characters (the model    *)
(*                   draws them without quote, "{" and carriage return).   *)
(***************************************************************************)
JsonPayload(obj) == [kind |-> "json", obj |-> obj, text |-> <<>>]
BadJsonPayload   == [kind |-> "badjson", obj |-> PyNone, text |-> <<"{">>]
TextPayload(txt) == [kind |-> "text", obj |-> PyNone, text |-> txt]

F_users == <<"u", "s", "e", "r", "s">>

\* the pieces of s between the occurrences of sep ("".split(sep) is [""])
RECURSIVE SplitOn(_, _)
SplitOn(s, sep) ==
    LET hits == {i \in 1..Len(s) : s[i] = sep}
    IN  IF hits = {} THEN <<s>>
        ELSE LET i == CHOOSE j \in hits : \A k \in hits : j <= k
             IN  <<SubSeq(s, 1, i - 1)>> \o SplitOn(SubSeq(s, i + 1, Len(s)), sep)

\* list(csv.reader(io.StringIO(text))) for a text without quotes: one list
\* of fields per line, the empty list for an empty line
CsvFields(lines) ==
    [i \in 1..Len(lines) |->
        IF lines[i] = <<>> THEN <<>> ELSE SplitOn(lines[i], ",")]

CsvReader(text) == IF text = <<>> THEN <<>> ELSE CsvFields(SplitOn(text, "\n"))

\* line 169 without the strip()
HeadersUntrimmed(row) == row

\* line 169
Headers(row) == [j \in 1..Len(row) |-> Strip(row[j])]

\* the keys of {headers[j]: ... for j in range(len(headers))} in insertion
\* order: each header once, at its first position
RECURSIVE DictKeys(_)
DictKeys(headers) ==
    IF headers = <<>> THEN <<>>
    ELSE LET init == SubSeq(headers, 1, Len(headers) - 1)
             last == headers[Len(headers)]
         IN  IF \E j \in 1..Len(init) : init[j] = last
             THEN DictKeys(init)
             ELSE DictKeys(init) \o <<last>>

\* line 176: a later column replaces an earlier one of the same name
RowDict(headers, row) ==
    PyDict(DictKeys(headers),
           [h \in {headers[j] : j \in 1..Len(headers)} |->
               LET last == CHOOSE j \in 1..Len(headers) :
                               /\ headers[j] = h
                               /\ \A k \in 1..Len(headers) : headers[k] = h => k <= j
               IN  PyStr(row[last])])

\* the try/except of lines 181-184 and 188-191: the converted value, or
\* the value as it was when the conversion raised ValueError
Converted(v, c, made) == IF c.exc = "none" THEN made ELSE v

\* lines 179-191: the value of a field after the opportunistic coercion
CoerceInt(v, c)   == Converted(v, c, PyInt(c.v))
CoerceFloat(v, c) == Converted(v, c, PyFloat(c.v))

Coerce(field, v) ==
    IF field \in {F_current_steps, F_heart_rate} THEN CoerceInt(v, StrToInt(v.s))
    ELSE IF field \in {F_ambient_temperature, F_environmental_index,
                       F_activity_intensity_factor}
    THEN CoerceFloat(v, StrToFloat(v.s))
    ELSE v

Coerced(raw) == [raw EXCEPT !.d = [h \in DOMAIN raw.d |-> Coerce(h, raw.d[h])]]

\* lines 176-193: the record of one accepted row
RowRecord(headers, row) == Coerced(RowDict(headers, row))

\* lines 172-193
RECURSIVE RowRecords(_, _, _)
RowRecords(headers, csv_data, i) ==
    IF i > Len(csv_data) THEN <<>>
    ELSE IF Len(csv_data[i]) # Len(headers)
    THEN RowRecords(headers, csv_data, i + 1)
    ELSE <<RowRecord(headers, csv_data[i])>> \o RowRecords(headers, csv_data, i + 1)

\* lines 166-195
CsvRecords(csv_data) ==
    IF Len(csv_data) < 2 THEN PyList(<<>>)
    ELSE PyList(RowRecords(Headers(csv_data[1]), csv_data, 2))

\* lines 164-195
ParseCsv(data_str) == CsvRecords(CsvReader(data_str))

HasComma(data_str) == \E i \in 1..Len(data_str) : data_str[i] = ","

\* lines 164-197
ParseText(data_str) ==
    IF HasComma(data_str) THEN ParseCsv(data_str) ELSE PyList(<<>>)

\* parse_input_data(data_str)
parse_input_data(p) ==
    CASE p.kind = "json" ->
            IF F_users \in DOMAIN p.obj.d THEN p.obj.d[F_users]
            ELSE PyList(<<p.obj>>)
      [] p.kind = "badjson" -> PyList(<<>>)
      [] p.kind = "text" -> ParseText(Strip(p.text))

(***************************************************************************)
(* State.                                                                  *)
(*   pc        where the call under study stands                           *)
(*   table     the cells a delimited text was written from                 *)
(*   payload   the text handed to parse_input_data / process_data          *)
(*   data      the parsed batch                                            *)
(*   vres      what validate_data returned or raised                       *)
(*   idx       the position of process_data's loop over data               *)
(*   user_data the record handed to calculate_metrics                      *)
(*   metrics   what calculate_metrics returned or raised                   *)
(*   results   the reports rendered so far                                 *)
(*   calls     how many times calculate_metrics was called                 *)
(*   output    the text process_data returned                              *)
(*   raised    the exception that left the call, "none" when none          *)
(***************************************************************************)
VARIABLES pc, table, payload, data, vres, idx, user_data, metrics, results,
          calls, output, raised

vars == <<pc, table, payload, data, vres, idx, user_data, metrics, results,
          calls, output, raised>>

NoOutput    == [kind |-> "none"]
FormatError == [kind |-> "format_error"]
NoMetrics   == MetricsRaised("none", PyNone)

(***************************************************************************)
(* Inputs.                                                                 *)
(***************************************************************************)
MaxRecords == 2

S_U1  == <<"U", "1">>
S_U2  == <<"U", "2">>
S_abc == <<"a", "b", "c">>

\* a dict with the six required fields
Rec(uid, steps, heart, temp, env, intensity) ==
    PyDict(required_fields,
           [f \in RequiredSet |->
               CASE f = F_user_id -> uid
                 [] f = F_current_steps -> steps
                 [] f = F_heart_rate -> heart
                 [] f = F_ambient_temperature -> temp
                 [] f = F_environmental_index -> env
                 [] f = F_activity_intensity_factor -> intensity])

\* rec without the keys in gone
Without(rec, gone) ==
    PyDict(SelectSeq(rec.keys, LAMBDA k : k \notin gone),
           [k \in (DOMAIN rec.d) \ gone |-> rec.d[k]])

\* rec with field set to v
With(rec, field, v) == [rec EXCEPT !.d[field] = v]

Dec(digits, places) == PyFloat(FOfDec(FALSE, digits, places))

\* the record of the spec's concrete scenario
GoodRecord == Rec(PyStr(S_U1), PyInt(10000), PyInt(70), PyInt(20), PyInt(80), Dec(10, 1))

\* sequences over S of length 1..n
RECURSIVE SeqsUpTo(_, _)
SeqsUpTo(S, n) ==
    IF n = 0 THEN {}
    ELSE LET shorter == SeqsUpTo(S, n - 1)
         IN  {<<x>> : x \in S} \cup shorter
             \cup {Append(q, x) : q \in shorter, x \in S}

RECURSIVE JoinWith(_, _)
JoinWith(parts, sep) ==
    IF parts = <<>> THEN <<>>
    ELSE IF Len(parts) = 1 THEN parts[1]
    ELSE parts[1] \o <<sep>> \o JoinWith(Tail(parts), sep)

\* the delimited text of a table: cells joined by commas, lines by newlines
CsvText(rows) ==
    JoinWith([i \in 1..Len(rows) |-> JoinWith(rows[i], ",")], "\n")

(***************************************************************************)
(* process_data, one step per statement group: parse (line 379), the       *)
(* empty-data return (381-382), validate (385), the validation-failure     *)
(* return (387-388), the loop body (392-395) and the final return (398).   *)
(***************************************************************************)
S_7000 == <<"7", "0", "0", "0">>
S_70   == <<"7", "0">>

PipelineRecords ==
    { GoodRecord,
      Rec(PyStr(S_U2), PyInt(100), PyInt(70), PyInt(20), PyInt(10), Dec(10, 1)),
      With(GoodRecord, F_environmental_index, PyInt(101)),
      Without(GoodRecord, {F_user_id}),
      With(GoodRecord, F_current_steps, PyStr(S_7000)),
      With(GoodRecord, F_heart_rate, PyStr(S_70)),
      With(GoodRecord, F_current_steps, PyFloat(FInf(FALSE))),
      PyInt(1) }

UsersObject(v) == PyDict(<<F_users>>, [k \in {F_users} |-> v])

\* values of "users" that are not an array of objects
OddUsers ==
    { PyInt(5), PyStr(S_abc), PyBool(TRUE), PyNone, PyList(<<>>),
      PyDict(<<S_abc>>, [k \in {S_abc} |-> PyInt(1)]),
      PyList(<<PyList(<<PyInt(1)>>)>>) }

CsvRows ==
    { <<S_U1, <<"7", "1", "0", "0">>, <<"7", "5">>, <<"2", "0">>, <<"8", "0">>,
        <<"1", ".", "1">>>>,
      <<S_U2, <<"8", "2", "0", "0">>, <<"8", "0">>, <<"2", "1">>,
        <<"1", "0", "1">>, <<"1", ".", "2">>>>,
      <<S_U1, S_abc, <<"7", "5">>, <<"2", "0">>, <<"8", "0">>, <<"1", ".", "1">>>>,
      <<S_U2, <<"8", "2", "0", "0">>>> }

PipelinePayloads ==
    {JsonPayload(UsersObject(PyList(b))) : b \in SeqsUpTo(PipelineRecords, MaxRecords)}
    \cup {JsonPayload(UsersObject(v)) : v \in OddUsers}
    \cup {JsonPayload(r) : r \in {x \in PipelineRecords : x.t = "dict"}}
    \cup {BadJsonPayload, TextPayload(S_abc), TextPayload(<<>>),
          TextPayload(CsvText(<<required_fields>>))}
    \cup {TextPayload(CsvText(<<required_fields>> \o rows)) :
             rows \in SeqsUpTo(CsvRows, MaxRecords)}

Init ==
    /\ pc = "start"
    /\ table = <<>>
    /\ payload \in PipelinePayloads
    /\ data = PyNone
    /\ vres = Raised("none")
    /\ idx = 1
    /\ user_data = PyNone
    /\ metrics = NoMetrics
    /\ results = <<>>
    /\ calls = 0
    /\ output = NoOutput
    /\ raised = "none"

\* line 379
Parse ==
    /\ pc = "start"
    /\ data' = parse_input_data(payload)
    /\ pc' = "parsed"
    /\ UNCHANGED <<table, payload, vres, idx, user_data, metrics, results, calls,
                   output, raised>>

\* lines 381-382
ReturnFormatError ==
    /\ pc = "parsed"
    /\ ~Truthy(data)
    /\ output' = FormatError
    /\ pc' = "done"
    /\ UNCHANGED <<table, payload, data, vres, idx, user_data, metrics, results,
                   calls, raised>>

\* line 385
Validate ==
    /\ pc = "parsed"
    /\ Truthy(data)
    /\ vres' = validate_data(data)
    /\ raised' = vres'.exc
    /\ pc' = IF vres'.exc = "none" THEN "validated" ELSE "done"
    /\ UNCHANGED <<table, payload, data, idx, user_data, metrics, results, calls,
                   output>>

\* lines 387-388
ReturnValidationReport ==
    /\ pc = "validated"
    /\ ~vres.passed
    /\ output' = vres.report
    /\ pc' = "done"
    /\ UNCHANGED <<table, payload, data, vres, idx, user_data, metrics, results,
                   calls, raised>>

\* lines 392-393
CalculateMetrics ==
    /\ pc = "validated"
    /\ vres.passed
    /\ idx <= Len(Elements(data))
    /\ user_data' = Elements(data)[idx]
    /\ metrics' = calculate_metrics(user_data')
    /\ calls' = calls + 1
    /\ raised' = metrics'.exc
    /\ pc' = IF metrics'.exc = "none" THEN "render" ELSE "done"
    /\ UNCHANGED <<table, payload, data, vres, idx, results, output>>

\* lines 394-395
GenerateReport ==
    /\ pc = "render"
    /\ results' = Append(results, generate_report(metrics))
    /\ idx' = idx + 1
    /\ pc' = "validated"
    /\ UNCHANGED <<table, payload, data, vres, user_data, metrics, calls, output,
                   raised>>

\* line 398
ReturnReports ==
    /\ pc = "validated"
    /\ vres.passed
    /\ idx > Len(Elements(data))
    /\ output' = [kind |-> "reports", reports |-> results]
    /\ pc' = "done"
    /\ UNCHANGED <<table, payload, data, vres, idx, user_data, metrics, results,
                   calls, raised>>

Next ==
    \/ Parse
    \/ ReturnFormatError
    \/ Validate
    \/ ReturnValidationReport
    \/ CalculateMetrics
    \/ GenerateReport
    \/ ReturnReports

Spec == Init /\ [][Next]_vars

(***************************************************************************)
(* calculate_metrics and generate_report on their own, for one record with *)
(* the types validation is meant to guarantee.  table keeps the numbers as *)
(* the decimal literals the record was written with: json.loads reads a    *)
(* literal without a point as an int and any other as the nearest float.   *)
(***************************************************************************)
Lit(neg, digits, places) == [neg |-> neg, digits |-> digits, places |-> places]

NumberOf(lit) ==
    IF lit.places = 0 THEN PyInt(Signed(lit.neg, lit.digits))
    ELSE PyFloat(FOfDec(lit.neg, lit.digits, lit.places))

StepsLits     == {Lit(FALSE, n, 0) : n \in {100, 300, 3770, 4920, 5000, 5800, 7100, 10000}}
IntensityLits == {Lit(FALSE, 10, 1), Lit(FALSE, 11, 1), Lit(FALSE, 13, 1), Lit(FALSE, 5, 1),
                  Lit(FALSE, 2, 0)}
HeartLits     == {Lit(FALSE, n, 0) : n \in {59, 60, 100, 101}}
EnvLits       == {Lit(FALSE, 0, 0), Lit(FALSE, 4999, 2), Lit(FALSE, 50, 0),
                  Lit(FALSE, 74999, 3), Lit(FALSE, 750, 1), Lit(FALSE, 100, 0)}
TempLits      == {Lit(TRUE, 5, 0), Lit(FALSE, 1499, 2), Lit(FALSE, 15, 0),
                  Lit(FALSE, 250, 1), Lit(FALSE, 2501, 2)}

MetricsTables ==
    [steps : StepsLits, intensity : IntensityLits, heart : HeartLits,
     env : EnvLits, temp : TempLits]

TypedRecord(t) ==
    Rec(PyStr(S_U1), NumberOf(t.steps), NumberOf(t.heart), NumberOf(t.temp),
        NumberOf(t.env), NumberOf(t.intensity))

InitMetrics ==
    /\ pc = "m_start"
    /\ table \in MetricsTables
    /\ user_data = TypedRecord(table)
    /\ payload = BadJsonPayload
    /\ data = PyNone
    /\ vres = Raised("none")
    /\ idx = 1
    /\ metrics = NoMetrics
    /\ results = <<>>
    /\ calls = 0
    /\ output = NoOutput
    /\ raised = "none"

\* metrics = self.calculate_metrics(user_data)
CallCalculateMetrics ==
    /\ pc = "m_start"
    /\ metrics' = calculate_metrics(user_data)
    /\ calls' = calls + 1
    /\ raised' = metrics'.exc
    /\ pc' = "m_calculated"
    /\ UNCHANGED <<table, payload, data, vres, idx, user_data, results, output>>

\* report = self.generate_report(metrics)
CallGenerateReport ==
    /\ pc = "m_calculated"
    /\ raised = "none"
    /\ results' = <<generate_report(metrics)>>
    /\ pc' = "m_rendered"
    /\ UNCHANGED <<table, payload, data, vres, idx, user_data, metrics, calls,
                   output, raised>>

NextMetrics == CallCalculateMetrics \/ CallGenerateReport

SpecMetrics == InitMetrics /\ [][NextMetrics]_vars

(***************************************************************************)
(* validate_data on its own, for a batch of at most MaxRecords records as  *)
(* json.loads can produce them.                                            *)
(***************************************************************************)
NegDec(digits, places) == PyFloat(FOfDec(TRUE, digits, places))

\* records with the types and ranges of a typed user record
TypedRecords ==
    { GoodRecord,
      Rec(PyStr(S_U2), PyInt(1), PyInt(1), NegDec(55, 1), PyInt(0), Dec(5, 1)),
      Rec(PyStr(S_U1), PyInt(8000), PyInt(100), PyInt(25), Dec(1000, 1), PyInt(2)) }

\* records that int() and float() accept though a field has another type
LooseRecords ==
    { With(GoodRecord, F_current_steps, PyStr(S_7000)),
      With(GoodRecord, F_current_steps, Dec(70005, 1)),
      With(GoodRecord, F_heart_rate, PyBool(TRUE)),
      With(GoodRecord, F_user_id, PyStr(<<>>)),
      With(GoodRecord, F_environmental_index, PyFloat(FNaN)),
      With(GoodRecord, F_ambient_temperature, PyStr(S_70)),
      With(GoodRecord, F_activity_intensity_factor, PyFloat(FInf(FALSE))) }

\* records with a field of a wrong type or out of its range
InvalidRecords ==
    { With(GoodRecord, F_user_id, PyInt(7)),
      With(GoodRecord, F_current_steps, PyInt(0)),
      With(GoodRecord, F_current_steps, PyFloat(FNaN)),
      With(GoodRecord, F_heart_rate, PyStr(S_abc)),
      With(GoodRecord, F_ambient_temperature, PyNone),
      With(GoodRecord, F_environmental_index, PyInt(101)),
      With(GoodRecord, F_environmental_index, PyInt(-1)),
      With(GoodRecord, F_environmental_index, Dec(10001, 2)),
      With(GoodRecord, F_activity_intensity_factor, PyInt(0)) }

\* records without some required field, and elements that are no dict
PartialRecords ==
    { Without(GoodRecord, {F_user_id}),
      Without(With(GoodRecord, F_environmental_index, PyInt(101)), {F_user_id}),
      Without(GoodRecord, {F_current_steps, F_environmental_index}),
      PyStr(S_abc),
      PyInt(1) }

ValidateInputs ==
    TypedRecords \cup LooseRecords \cup InvalidRecords \cup PartialRecords
    \cup {With(GoodRecord, F_current_steps, PyFloat(FInf(FALSE)))}

InitValidate ==
    /\ pc = "v_start"
    /\ table = <<>>
    /\ payload = BadJsonPayload
    /\ data \in {PyList(b) : b \in SeqsUpTo(ValidateInputs, MaxRecords) \cup {<<>>}}
    /\ vres = Raised("none")
    /\ idx = 1
    /\ user_data = PyNone
    /\ metrics = NoMetrics
    /\ results = <<>>
    /\ calls = 0
    /\ output = NoOutput
    /\ raised = "none"

\* validation_passed, validation_report, validation_results =
\*     self.validate_data(data)
CallValidateData ==
    /\ pc = "v_start"
    /\ vres' = validate_data(data)
    /\ raised' = vres'.exc
    /\ pc' = "v_done"
    /\ UNCHANGED <<table, payload, data, idx, user_data, metrics, results, calls,
                   output>>

\* the caller reads the report of a call that returned
ReadValidationReport ==
    /\ pc = "v_done"
    /\ raised = "none"
    /\ output' = vres.report
    /\ pc' = "v_read"
    /\ UNCHANGED <<table, payload, data, vres, idx, user_data, metrics, results,
                   calls, raised>>

NextValidate == CallValidateData \/ ReadValidationReport

SpecValidate == InitValidate /\ [][NextValidate]_vars

(***************************************************************************)
(* parse_input_data on its own, for a delimited text written from a table  *)
(* of cells: a header row and at most MaxRecords data rows.  A row without *)
(* cells is an empty line.                                                 *)
(***************************************************************************)
S_a == <<"a">>
S_b == <<"b">>

HeaderRows ==
    { <<S_a, S_b>>,
      <<S_b, S_a>>,
      <<<<"a", " ">>, S_b>>,
      <<S_a, S_a>>,
      <<S_a, <<" ", "a">>>>,
      <<F_heart_rate, S_a>>,
      <<S_a, F_heart_rate, F_environmental_index>>,
      <<S_a>> }

DataRows ==
    { <<<<"1">>, <<"2">>>>,
      <<<<" ", "7", " ">>, <<"x">>>>,
      <<<<"x">>, <<"7", "0">>, <<"1", ".", "5">>>>,
      <<<<"x">>, <<"y">>, <<"z">>>>,
      <<<<"1">>, <<" ">>>>,
      <<<<"5">>>>,
      <<>> }

ParseTables ==
    {<<h>> \o rows : h \in HeaderRows, rows \in SeqsUpTo(DataRows, MaxRecords) \cup {<<>>}}

InitParse ==
    /\ pc = "p_start"
    /\ table \in ParseTables
    /\ payload = TextPayload(CsvText(table))
    /\ data = PyNone
    /\ vres = Raised("none")
    /\ idx = 1
    /\ user_data = PyNone
    /\ metrics = NoMetrics
    /\ results = <<>>
    /\ calls = 0
    /\ output = NoOutput
    /\ raised = "none"

\* data = self.parse_input_data(data_str)
CallParseInputData ==
    /\ pc = "p_start"
    /\ data' = parse_input_data(payload)
    /\ pc' = "p_done"
    /\ UNCHANGED <<table, payload, vres, idx, user_data, metrics, results, calls,
                   output, raised>>

NextParse == CallParseInputData

SpecParse == InitParse /\ [][NextParse]_vars

(***************************************************************************)
(* Properties of process_data (Spec).                                      *)
(***************************************************************************)
\* a record of the parsed batch that lacks a required field or fails one of
\* the type/range checks of lines 68-102
FailsValidation(record) ==
    /\ record.t = "dict"
    /\ \/ MissingFields(record) # <<>>
       \/ InvalidFields(record) # <<>>

SomeRecordFails ==
    /\ data.t = "list"
    /\ \E i \in 1..Len(data.items) : FailsValidation(data.items[i])

\* C1: calculate_metrics is called only after validate_data has passed for
\* the whole batch; when some record of the parsed batch lacks a field or
\* fails a type/range check, process_data ends by returning exactly the
\* validation report, with no metrics computed and no report rendered
C1_AllOrNothing ==
    /\ calls > 0 => (vres.exc = "none" /\ vres.passed)
    /\ (pc = "done" /\ SomeRecordFails) =>
          /\ output.kind = "validation_report"
          /\ output = vres.report
          /\ calls = 0
          /\ results = <<>>

\* C1 holds of every call of process_data that no exception has left
C1_AllOrNothingOnReturn == (raised = "none") => C1_AllOrNothing

\* C3: no payload makes process_data raise; the returned text is the format
\* error, a validation failure report or the concatenated per-user reports,
\* with one report for every record of a batch that passed validate_data
C3_NeverRaises ==
    /\ raised = "none"
    /\ pc = "done" =>
          \/ output.kind = "format_error"
          \/ output.kind = "validation_report" /\ ~vres.passed
          \/ /\ output.kind = "reports"
             /\ vres.passed
             /\ Len(output.reports) = Len(Elements(data))

(***************************************************************************)
(* Properties of parse_input_data (SpecParse).                             *)
(***************************************************************************)
\* the text written from t is a delimited text with a header and a data
\* line that strip() leaves as it is
Delimited(t) ==
    /\ Len(t) >= 2
    /\ HasComma(CsvText(t))
    /\ Strip(CsvText(t)) = CsvText(t)

\* the data rows of t with as many cells as the header, in input order
MatchingRows(t) == SelectSeq(Tail(t), LAMBDA row : Len(row) = Len(t[1]))

\* the trimmed header names of t
Names(t) == {Strip(t[1][j]) : j \in 1..Len(t[1])}

DistinctNames(t) == Cardinality(Names(t)) = Len(t[1])

\* the last column of t named name
LastColumn(t, name) ==
    CHOOSE j \in 1..Len(t[1]) :
        /\ Strip(t[1][j]) = name
        /\ \A k \in 1..Len(t[1]) : Strip(t[1][k]) = name => k <= j

\* the value a record holds for a cell under a header name: int(cell) for
\* the two integer fields and float(cell) for the three real fields when
\* the conversion succeeds, the cell's text otherwise
CellValue(name, cell) ==
    IF name \in {F_current_steps, F_heart_rate} /\ StrToInt(cell).exc = "none"
    THEN PyInt(StrToInt(cell).v)
    ELSE IF name \in {F_ambient_temperature, F_environmental_index,
                      F_activity_intensity_factor}
            /\ StrToFloat(cell).exc = "none"
    THEN PyFloat(StrToFloat(cell).v)
    ELSE PyStr(cell)

ColumnOrders(n) ==
    {p \in [1..n -> 1..n] : \A i, j \in 1..n : p[i] = p[j] => i = j}

\* t with the columns of the header and of every matching row permuted by p
Permuted(t, p) ==
    [i \in 1..Len(t) |->
        IF Len(t[i]) = Len(t[1]) THEN [j \in 1..Len(t[i]) |-> t[i][p[j]]]
        ELSE t[i]]

\* the key-value mappings of the records parsed from table t
Mappings(t) ==
    LET parsed == parse_input_data(TextPayload(CsvText(t))).items
    IN  [k \in 1..Len(parsed) |-> parsed[k].d]

ParseCalled == pc = "p_done"

\* one record per matching row of the table, in input order
OneRecordPerMatchingRow ==
    /\ data.t = "list"
    /\ Len(data.items) = Len(MatchingRows(table))
    /\ \A k \in 1..Len(data.items) : data.items[k].t = "dict"

\* C9 as stated: one record per data row with the header's field count, in
\* input order, the others dropped; each record maps every trimmed header
\* name to the value in the same column of its row; permuting the header
\* and the columns together yields the same keyed records
C9_EveryColumnKeyed ==
    (ParseCalled /\ Delimited(table)) =>
        /\ OneRecordPerMatchingRow
        /\ \A k \in 1..Len(data.items) :
              \A j \in 1..Len(table[1]) :
                  /\ Strip(table[1][j]) \in DOMAIN data.items[k].d
                  /\ data.items[k].d[Strip(table[1][j])] =
                        CellValue(Strip(table[1][j]), MatchingRows(table)[k][j])
        /\ \A p \in ColumnOrders(Len(table[1])) :
              Delimited(Permuted(table, p)) =>
                  Mappings(Permuted(table, p)) = Mappings(table)

\* C9 as amended: one record per data row with the header's field count, in
\* input order, the others dropped; the keys of a record are the trimmed
\* header names and each maps to the value of the last column of that name,
\* converted by int() or float() for the numeric fields where the cell
\* converts; when the trimmed names are pairwise distinct, permuting the
\* header and the columns together yields the same keyed records
C9_LastColumnKeyed ==
    (ParseCalled /\ Delimited(table)) =>
        /\ OneRecordPerMatchingRow
        /\ \A k \in 1..Len(data.items) :
              /\ DOMAIN data.items[k].d = Names(table)
              /\ \A name \in Names(table) :
                    data.items[k].d[name] =
                        CellValue(name, MatchingRows(table)[k][LastColumn(table, name)])
        /\ DistinctNames(table) =>
              \A p \in ColumnOrders(Len(table[1])) :
                  Delimited(Permuted(table, p)) =>
                      Mappings(Permuted(table, p)) = Mappings(table)

\* a table whose two header names are equal after trimming, with one data
\* row kept and one dropped, has been parsed
C9_Witness ==
    /\ ParseCalled
    /\ Delimited(table)
    /\ table[1] = <<S_a, <<" ", "a">>>>
    /\ Len(table) = 3
    /\ Len(table[2]) = 2
    /\ Len(table[3]) = 3
    /\ Len(data.items) = 1
    /\ data.items[1].d[S_a] = PyStr(table[2][2])

(***************************************************************************)
(* Properties of validate_data (SpecValidate).                             *)
(***************************************************************************)
\* a real number: an int or a finite float, not a bool
RealNumber(v) == v.t = "int" \/ (v.t = "float" /\ v.f.cls = "fin")

\* the typed user record of the data model: six fields, user_id a non-empty
\* string, current_steps and heart_rate integers > 0, ambient_temperature
\* real, environmental_index real in [0, 100], activity_intensity_factor
\* real > 0
TypedUserRecord(record) ==
    /\ record.t = "dict"
    /\ RequiredSet \subseteq DOMAIN record.d
    /\ record.d[F_user_id].t = "str"
    /\ record.d[F_user_id].s # <<>>
    /\ \A f \in {F_current_steps, F_heart_rate} :
          record.d[f].t = "int" /\ record.d[f].n > 0
    /\ RealNumber(record.d[F_ambient_temperature])
    /\ RealNumber(record.d[F_environmental_index])
    /\ FGe(FloatOf(record.d[F_environmental_index]), FOfInt(0))
    /\ FLe(FloatOf(record.d[F_environmental_index]), FOfInt(100))
    /\ RealNumber(record.d[F_activity_intensity_factor])
    /\ FGt(FloatOf(record.d[F_activity_intensity_factor]), FOfInt(0))

\* a dict whose environmental_index is a number below 0 or above 100
EnvOutOfRange(record) ==
    /\ record.t = "dict"
    /\ F_environmental_index \in DOMAIN record.d
    /\ record.d[F_environmental_index].t \in {"int", "float"}
    /\ \/ FLt(FloatOf(record.d[F_environmental_index]), FOfInt(0))
       \/ FGt(FloatOf(record.d[F_environmental_index]), FOfInt(100))

\* a dict without some required field
LacksField(record) ==
    record.t = "dict" /\ ~(RequiredSet \subseteq DOMAIN record.d)

\* the required fields absent from a dict, in required-field order
AbsentFields(record) ==
    SelectSeq(required_fields, LAMBDA f : f \notin DOMAIN record.d)

ValidateCalled == pc \in {"v_done", "v_read"}
ValidateReturned == ValidateCalled /\ vres.exc = "none"
Batch == data.items

\* C2: whenever validate_data returns passed = true, every record of the
\* batch is a typed user record
C2_PassedImpliesTyped ==
    (ValidateReturned /\ vres.passed) =>
        \A i \in 1..Len(Batch) : TypedUserRecord(Batch[i])

C6_MissingFieldErrors ==
    (ValidateCalled /\ \E i \in 1..Len(Batch) : LacksField(Batch[i])) =>
        /\ vres.exc = "none"
        /\ ~vres.passed
        /\ \A i \in 1..Len(Batch) :
              LacksField(Batch[i]) =>
                  /\ Cardinality({k \in 1..Len(vres.errors) : vres.errors[k].row = i}) = 1
                  /\ \E k \in 1..Len(vres.errors) :
                        vres.errors[k] = MissingError(AbsentFields(Batch[i]), i)
        /\ \A i \in 1..Len(Batch) :
              (~LacksField(Batch[i]) /\ Batch[i].t = "dict"
                 /\ InvalidFields(Batch[i]) # <<>>) =>
                  \E k \in 1..Len(vres.errors) :
                      vres.errors[k] = InvalidError(InvalidFields(Batch[i]), i)
        /\ \A k \in 1..Len(vres.errors) - 1 :
              vres.errors[k].row < vres.errors[k + 1].row

\* C6 holds of every call that returns
C6_MissingFieldErrorsOnReturn == (vres.exc = "none") => C6_MissingFieldErrors

\* C7: for every non-empty batch of typed user records validate_data returns
\* passed = true, no error and a presence table marking the six required
\* fields "present"; and passed is true exactly when no error was accumulated
C7_TypedBatchPasses ==
    ValidateCalled =>
        /\ (Len(Batch) > 0 /\ \A i \in 1..Len(Batch) : TypedUserRecord(Batch[i])) =>
              /\ vres.exc = "none"
              /\ vres.passed
              /\ vres.errors = <<>>
              /\ vres.fields_check = [f \in RequiredSet |-> "present"]
        /\ (vres.exc = "none" /\ Len(Batch) > 0) =>
              (vres.passed <=> vres.errors = <<>>)

\* a batch of two typed records, one with environmental_index 100.0 and one
\* with environmental_index 0, has passed
C7_Witness ==
    /\ ValidateReturned
    /\ Len(Batch) = 2
    /\ \A i \in 1..2 : TypedUserRecord(Batch[i])
    /\ Batch[1].d[F_environmental_index] = Dec(1000, 1)
    /\ Batch[2].d[F_environmental_index] = PyInt(0)
    /\ vres.passed

(***************************************************************************)
(* Properties of calculate_metrics and generate_report (SpecMetrics).      *)
(***************************************************************************)
Calculated == pc \in {"m_calculated", "m_rendered"} /\ raised = "none"

\* C8: for a typed record each classifier gives the one category the
\* thresholds name, the bounds 60, 100, 75, 50, 15 and 25 included, the
\* thresholds being compared with the record's decimal literals exactly:
\* heart_rate < 60 Below Optimal, 60..100 Optimal, > 100 Above Optimal;
\* environmental_index >= 75 Good, >= 50 Moderate, else Poor;
\* ambient_temperature 15..25 Ideal Temperature, < 15 Too Cold, > 25 Too Hot.
C8_ClassifierThresholds ==
    Calculated =>
        LET c    == metrics.calculations
            hr   == Signed(table.heart.neg, table.heart.digits)
            env  == Signed(table.env.neg, table.env.digits)
            envU == 10 ^ table.env.places
            tmp  == Signed(table.temp.neg, table.temp.digits)
            tmpU == 10 ^ table.temp.places
        IN  /\ c.heart_rate_category =
                 (IF hr < 60 THEN "Below Optimal"
                  ELSE IF hr <= 100 THEN "Optimal" ELSE "Above Optimal")
            /\ c.environmental_quality =
                 (IF env >= 75 * envU THEN "Good"
                  ELSE IF env >= 50 * envU THEN "Moderate" ELSE "Poor")
            /\ c.temperature_impact =
                 (IF tmp < 15 * tmpU THEN "Too Cold"
                  ELSE IF tmp <= 25 * tmpU THEN "Ideal Temperature" ELSE "Too Hot")

\* heart_rate 60, environmental_index 74.999 and ambient_temperature 25 classified
C8_Witness ==
    /\ Calculated
    /\ table.heart = Lit(FALSE, 60, 0)
    /\ table.env = Lit(FALSE, 74999, 3)
    /\ table.temp = Lit(FALSE, 250, 1)
    /\ metrics.calculations.heart_rate_category = "Optimal"
    /\ metrics.calculations.environmental_quality = "Moderate"
    /\ metrics.calculations.temperature_impact = "Ideal Temperature"

\* C4 as amended: the recommendation is "Continue current fitness plan" with
\* status "Optimal" exactly when the unrounded composite_score of line 263
\* is >= 0.75, heart_rate_category is Optimal and temperature_impact is
\* Ideal Temperature, and "Adjust fitness plan" with "Needs Adjustment"
\* otherwise; an Optimal status comes with a reported score >= 0.75.
C4_RecommendationByUnroundedScore ==
    Calculated =>
        LET c == metrics.calculations
            optimal == /\ FGe(metrics.composite_score, FOfDec(FALSE, 75, 2))
                       /\ c.heart_rate_category = "Optimal"
                       /\ c.temperature_impact = "Ideal Temperature"
        IN  /\ optimal => /\ c.recommendation = "Continue current fitness plan"
                          /\ c.status = "Optimal"
                          /\ c.composite_fitness_score.r.h >= 75
            /\ ~optimal => /\ c.recommendation = "Adjust fitness plan"
                           /\ c.status = "Needs Adjustment"

\* a reported score of 0.75 with Optimal heart rate and Ideal Temperature
\* whose unrounded score is below 0.75
C4_Witness ==
    /\ Calculated
    /\ metrics.calculations.composite_fitness_score.r.h = 75
    /\ metrics.calculations.heart_rate_category = "Optimal"
    /\ metrics.calculations.temperature_impact = "Ideal Temperature"
    /\ FLt(metrics.composite_score, FOfDec(FALSE, 75, 2))
    /\ metrics.calculations.status = "Needs Adjustment"

\* C4 as stated: status "Optimal" exactly when the reported 2-decimal
\* composite_fitness_score is >= 0.75, heart_rate_category is Optimal and
\* temperature_impact is Ideal Temperature
C4_RecommendationByReportedScore ==
    Calculated =>
        LET c == metrics.calculations
        IN  (c.recommendation = "Continue current fitness plan" /\ c.status = "Optimal")
            <=> /\ c.composite_fitness_score.r.h >= 75
                /\ c.heart_rate_category = "Optimal"
                /\ c.temperature_impact = "Ideal Temperature"

\* C10: the reported composite_fitness_score is the sum of the three
\* reported sub-scores, so the line "normalized + heart + env = composite"
\* of the report is arithmetically true (all four in hundredths)
C10_CompositeLineAddsUp ==
    (pc = "m_rendered") =>
        LET line == results[1].composite_line
        IN  line[1].r.h + line[2].r.h + line[3].r.h = line[4].r.h

=============================================================================
